---- MODULE Spec2Model ----
EXTENDS Integers, Sequences, FiniteSets, TLC

(***************************************************************************)
(* Model of src/main.rs: the solver session (start_solver / init_commands) *)
(* and the game session (start_game) of the semantle program.             *)
(*                                                                         *)
(* f32 values are modelled in fixed point.  A vector component c stands    *)
(* for c / VecScale, a dot product d for d / DotScale and a value on the   *)
(* percentage scale p for p / PctScale percent.                            *)
(***************************************************************************)

VARIABLES
  original_words,   \* start_solver: original_words (word -> vector), never mutated
  words_to_vecs,    \* start_solver: words_to_vecs, the working candidate map
  log,              \* start_solver: log, sequence of <<word, value>>
  out,              \* what the last command printed, or the branch it took
                    \* when it printed nothing: [kind, arg]
  exit_code,        \* {} while the loop runs, {code} once exit(code) was called
  answer,           \* start_game: answer, the secret word
  most_similar,     \* start_game: most_similar, sequence of <<word, similarity>>
  similarities,     \* start_game: similarities (second map), word -> <<similarity, index>>
  guesses,          \* start_game: guesses
  guessed,          \* start_game: guessed (HashSet of words)
  game_log,         \* start_game: log, sequence of <<guess, word, similarity, index>>
  most_recent,      \* start_game: most_recent
  best_guessed,     \* start_game: best_guessed
  status,           \* start_game: position of the loop / how the process ended
  shown,            \* start_game: what the last turn printed: [kind, arg]
  hinted,           \* the words !hint substituted so far, in order
  f_v1, f_v2, f_target, f_res    \* one call of filter_embeddings and its result

solver_vars == <<original_words, words_to_vecs, log, out, exit_code>>
game_vars == <<answer, most_similar, similarities, guesses, guessed, game_log,
               most_recent, best_guessed, status, shown, hinted>>
filter_vars == <<f_v1, f_v2, f_target, f_res>>
vars == <<solver_vars, game_vars, filter_vars>>

----------------------------------------------------------------------------
(* Fixed-point scales *)

VecScale == 20000
DotScale == VecScale * VecScale
PctScale == DotScale \div 100

\* the literal 0.005 of filter_embeddings, on the percentage scale
Tolerance == (5 * PctScale) \div 1000

\* f32::round of the quotient n / d (d > 0): nearest, halves away from zero
Round(n, d) ==
  IF n >= 0 THEN (2 * n + d) \div (2 * d)
  ELSE -((2 * (-n) + d) \div (2 * d))

Min(a, b) == IF a <= b THEN a ELSE b
Max(a, b) == IF a >= b THEN a ELSE b

----------------------------------------------------------------------------
(* Pure functions *)

RECURSIVE dot_sum(_, _, _)
dot_sum(v1, v2, n) ==
  IF n = 0 THEN 0 ELSE dot_sum(v1, v2, n - 1) + v1[n] * v2[n]

\* fn dot_product: zip stops at the shorter slice
dot_product(v1, v2) == dot_sum(v1, v2, Min(Len(v1), Len(v2)))

\* dot_product(..) * 100.0, a value on the percentage scale
Times100(d) == d * ((100 * PctScale) \div DotScale)

filter_embeddings_unscaled(v1, v2, target_val) ==
  LET res == Times100(dot_product(v1, v2)) \div 100
  IN  res >= target_val - Tolerance /\ res < target_val + Tolerance

filter_embeddings(v1, v2, target_val) ==
  LET res == Times100(dot_product(v1, v2))
  IN  res >= target_val - Tolerance /\ res < target_val + Tolerance

Retain_first_miss(m, v1, target_val) ==
  LET drop == {k \in DOMAIN m : ~filter_embeddings(v1, m[k], target_val)}
      keep == IF drop = {} THEN DOMAIN m
              ELSE DOMAIN m \ {CHOOSE k \in drop : TRUE}
  IN  [k \in keep |-> m[k]]

\* HashMap::retain(|_, value| filter_embeddings(v1, value, target_val))
Retain(m, v1, target_val) ==
  LET keep == {k \in DOMAIN m : filter_embeddings(v1, m[k], target_val)}
  IN  [k \in keep |-> m[k]]

RECURSIVE update_fold(_, _, _, _)
update_fold(ow, m, lg, i) ==
  IF i > Len(lg) THEN m
  ELSE update_fold(ow, Retain(m, ow[lg[i][1]], lg[i][2]), lg, i + 1)

update_words_first_only(ow, lg) ==
  IF lg = <<>> THEN ow ELSE Retain(ow, ow[lg[1][1]], lg[1][2])

\* fn update_words: restart from the original map and apply every log entry
update_words(ow, lg) == update_fold(ow, ow, lg, 1)

----------------------------------------------------------------------------
(* Inputs: the embedding files the program may load, and what the user types *)

\* the vocabulary of the spec's scenarios
VocabScenario ==
  [w \in {"cat", "dog", "car"} |->
     CASE w = "cat" -> <<20000, 0>>
       [] w = "dog" -> <<18000, 2000>>
       [] w = "car" -> <<0, 20000>>]

\* unit vectors; north.east is -0.00005
VocabCompass ==
  [w \in {"north", "east", "south"} |->
     CASE w = "north" -> <<20000, 0>>
       [] w = "east" -> <<-1, 20000>>
       [] w = "south" -> <<0, -20000>>]

\* unit vectors; the cosine of grey with each of the others is 0.99995
VocabTwins ==
  [w \in {"grey", "gray", "slate"} |->
     CASE w = "grey" -> <<20000, 0>>
       [] w = "gray" -> <<19999, 200>>
       [] w = "slate" -> <<19999, -200>>]

Vocabularies == {VocabScenario, VocabCompass, VocabTwins}

\* str::parse::<f32> on the numerals the user types; any other term is an Err
ParseF32 ==
  [t \in {"100", "90", "0", "-0.01", "99.98"} |->
     CASE t = "100" -> 100 * PctScale
       [] t = "90" -> 90 * PctScale
       [] t = "0" -> 0
       [] t = "-0.01" -> -(PctScale \div 100)
       [] t = "99.98" -> 9998 * (PctScale \div 100)]

\* the numerals typed in a session on vocabulary ow
Numerals(ow) ==
  CASE ow = VocabScenario -> {"100", "90"}
    [] ow = VocabCompass -> {"0", "-0.01"}
    [] OTHER -> {"100", "99.98"}

UnknownWords == {"xyz"}

\* longest parameter list typed after a command name
MaxTerms == 3

SeqsUpTo(S, n) == UNION {[1..k -> S] : k \in 0..n}

Orders(S) ==
  {f \in [1..Cardinality(S) -> S] : \A i, j \in DOMAIN f : f[i] = f[j] => i = j}

----------------------------------------------------------------------------
(* init_commands: the closures of the command table.  Each takes the terms *)
(* of the line and returns (exit code, words_to_vecs, log) and a message.  *)

Ret(code, m, lg, kind, arg) ==
  [exit_code |-> code, words_to_vecs |-> m, log |-> lg,
   out |-> [kind |-> kind, arg |-> arg]]

Usage(command) ==
  CASE command = "w" -> "w <word> <value|-r|value -e>"
    [] command = "l" -> "l [-d]"
    [] command = "c" -> "c <length> <word> [-dr]"
    [] OTHER -> command

HasWord(lg, word) == \E i \in DOMAIN lg : lg[i][1] = word

\* the loop `for term in params` of the w closure, from term i on
RECURSIVE w_parse(_, _, _, _)
w_parse(params, i, ow, acc) ==
  IF i > Len(params) \/ acc.ret # "" THEN acc
  ELSE
    LET term == params[i]
    IN  w_parse(params, i + 1, ow,
          IF term = "-n" THEN [acc EXCEPT !.state = "Normal"]
          ELSE IF term = "-e" THEN [acc EXCEPT !.state = "Edit"]
          ELSE IF term = "-r" THEN [acc EXCEPT !.state = "Remove"]
          ELSE IF acc.word_count = 0 THEN
            IF term \notin DOMAIN ow
            THEN [acc EXCEPT !.ret = "UnknownWord", !.arg = term]
            ELSE [acc EXCEPT !.word = <<term>>, !.word_count = 1]
          ELSE IF acc.word_count = 1 THEN
            IF term \notin DOMAIN ParseF32
            THEN [acc EXCEPT !.ret = "Usage"]
            ELSE [acc EXCEPT !.val = <<ParseF32[term]>>, !.word_count = 2]
          ELSE [acc EXCEPT !.ret = "Usage"])

w_add_from_original(ow, m, lg, word, val) ==
  IF val = <<>> THEN Ret({}, m, lg, "Usage", Usage("w"))
  ELSE IF HasWord(lg, word) THEN Ret({}, m, lg, "Duplicate", "")
  ELSE Ret({}, Retain(ow, ow[word], val[1]), Append(lg, <<word, val[1]>>), "Added", "")

w_add_unchecked(ow, m, lg, word, val) ==
  IF val = <<>> THEN Ret({}, m, lg, "Usage", Usage("w"))
  ELSE Ret({}, Retain(m, ow[word], val[1]), Append(lg, <<word, val[1]>>), "Added", "")

\* AddWordState::Normal
w_add(ow, m, lg, word, val) ==
  IF val = <<>> THEN Ret({}, m, lg, "Usage", Usage("w"))
  ELSE IF HasWord(lg, word) THEN Ret({}, m, lg, "Duplicate", "")
  ELSE Ret({}, Retain(m, ow[word], val[1]), Append(lg, <<word, val[1]>>), "Added", "")

w_edit_incremental(ow, m, lg, word, val) ==
  IF val = <<>> \/ ~HasWord(lg, word) THEN Ret({}, m, lg, "Usage", Usage("w"))
  ELSE
    LET lg2 == [i \in DOMAIN lg |->
                  <<lg[i][1], IF lg[i][1] = word THEN val[1] ELSE lg[i][2]>>]
    IN  Ret({}, Retain(m, ow[word], val[1]), lg2, "Edited", "")

w_edit_reinsert(ow, m, lg, word, val) ==
  IF val = <<>> \/ ~HasWord(lg, word) THEN Ret({}, m, lg, "Usage", Usage("w"))
  ELSE
    LET lg2 == Append(SelectSeq(lg, LAMBDA e : e[1] # word), <<word, val[1]>>)
    IN  Ret({}, update_words(ow, lg2), lg2, "Edited", "")

w_edit_unchecked(ow, m, lg, word, val) ==
  IF val = <<>> THEN Ret({}, m, lg, "Usage", Usage("w"))
  ELSE
    LET lg2 == [i \in DOMAIN lg |->
                  <<lg[i][1], IF lg[i][1] = word THEN val[1] ELSE lg[i][2]>>]
    IN  Ret({}, update_words(ow, lg2), lg2, "Edited", "")

\* AddWordState::Edit
w_edit(ow, m, lg, word, val) ==
  IF val = <<>> \/ ~HasWord(lg, word) THEN Ret({}, m, lg, "Usage", Usage("w"))
  ELSE
    LET lg2 == [i \in DOMAIN lg |->
                  <<lg[i][1], IF lg[i][1] = word THEN val[1] ELSE lg[i][2]>>]
    IN  Ret({}, update_words(ow, lg2), lg2, "Edited", "")

w_remove_stale(ow, m, lg, word) ==
  IF ~HasWord(lg, word) THEN Ret({}, m, lg, "Usage", Usage("w"))
  ELSE Ret({}, m, SelectSeq(lg, LAMBDA e : e[1] # word), "Removed", "")

\* AddWordState::Remove
w_remove(ow, m, lg, word) ==
  IF ~HasWord(lg, word) THEN Ret({}, m, lg, "Usage", Usage("w"))
  ELSE
    LET lg2 == SelectSeq(lg, LAMBDA e : e[1] # word)
    IN  Ret({}, update_words(ow, lg2), lg2, "Removed", "")

\* the closure of command "w"; params[1] is the command name
w_run(params, ow, m, lg) ==
  LET acc == w_parse(params, 2, ow,
               [state |-> "Normal", word_count |-> 0, word |-> <<>>,
                val |-> <<>>, ret |-> "", arg |-> ""])
  IN  IF acc.ret = "UnknownWord" THEN Ret({}, m, lg, "UnknownWord", acc.arg)
      ELSE IF acc.ret = "Usage" \/ acc.word = <<>>
        THEN Ret({}, m, lg, "Usage", Usage("w"))
      ELSE IF acc.state = "Normal" THEN w_add(ow, m, lg, acc.word[1], acc.val)
      ELSE IF acc.state = "Edit" THEN w_edit(ow, m, lg, acc.word[1], acc.val)
      ELSE w_remove(ow, m, lg, acc.word[1])

\* (dot_product(b, d) * 10000.).round() as i32
Bucket(b, d) == Round(dot_product(b, d), DotScale \div 10000)

\* .map(..).unique().count() for candidate a of the fb closure
DistinctCount(m, a) == Cardinality({Bucket(m[a], m[d]) : d \in DOMAIN m})

\* .fold(("-", 0), |a, b| (b.0, a.1.max(b.1))) over the map in iteration order
RECURSIVE fb_fold(_, _, _, _)
fb_fold(m, order, i, a) ==
  IF i > Len(order) THEN a
  ELSE fb_fold(m, order, i + 1,
                <<order[i], Max(a[2], DistinctCount(m, order[i]))>>)

\* the closure of command "fb"; order is the iteration order of the HashMap
fb_run(params, m, lg, order) ==
  IF Len(params) > 1 THEN Ret({}, m, lg, "Usage", Usage("fb"))
  ELSE IF lg = <<>> THEN Ret({}, m, lg, "Best", "eget")
  ELSE Ret({}, m, lg, "Best", fb_fold(m, order, 1, <<"-", 0>>)[1])

\* the closure of command "q"
q_run(params, m, lg) ==
  IF Len(params) > 1 THEN Ret({}, m, lg, "Usage", Usage("q"))
  ELSE Ret({0}, m, lg, "Quit", "")

RetLog(m, lg, kind, list) ==
  [exit_code |-> {}, words_to_vecs |-> m, log |-> lg,
   out |-> [kind |-> kind, arg |-> "", list |-> list]]

l_run_drained(params, m, lg) ==
  IF Len(params) = 1 THEN RetLog(m, <<>>, "Log", lg)
  ELSE IF params[2] = "-d" /\ Len(params) = 2 THEN RetLog(m, <<>>, "LogDebug", lg)
  ELSE Ret({}, m, lg, "Usage", Usage("l"))

\* the closure of command "l"
l_run(params, m, lg) ==
  IF Len(params) = 1 THEN RetLog(m, lg, "Log", lg)
  ELSE IF params[2] = "-d" /\ Len(params) = 2 THEN RetLog(m, lg, "LogDebug", lg)
  ELSE Ret({}, m, lg, "Usage", Usage("l"))

\* lines 250-266: the argument loop of "p"; ret # "" is the early return
RECURSIVE p_parse(_, _, _)
p_parse(params, i, acc) ==
  IF i > Len(params) \/ acc.ret # "" THEN acc
  ELSE
    LET term == params[i]
    IN  p_parse(params, i + 1,
          IF term = "-d" THEN [acc EXCEPT !.debug_mode = TRUE]
          ELSE IF term = "-e"
            THEN [acc EXCEPT !.debug_mode = TRUE, !.show_embeddings = TRUE]
          ELSE [acc EXCEPT !.ret = "Usage"])

p_start == [debug_mode |-> FALSE, show_embeddings |-> FALSE, ret |-> ""]

\* the closure of command "p"; order is the iteration order of the HashMap
p_run(params, m, lg, order) ==
  LET q == p_parse(params, 2, p_start)
  IN  IF q.ret # "" THEN Ret({}, m, lg, "Usage", Usage("p"))
      ELSE [exit_code |-> {}, words_to_vecs |-> m, log |-> lg,
            out |-> [kind |-> IF q.show_embeddings THEN "PossibleEmbeddings"
                              ELSE IF q.debug_mode THEN "PossibleDebug"
                              ELSE "Possible",
                     arg |-> "", keys |-> order]]

\* the closure of command "h"
h_run(params, m, lg) ==
  IF Len(params) > 1 THEN Ret({}, m, lg, "Usage", Usage("h"))
  ELSE Ret({}, m, lg, "Help", "")

\* term.parse::<usize>() on the numerals that can be typed
ParseUsize ==
  [t \in {"0", "1", "5", "90", "100"} |->
     CASE t = "0" -> 0
       [] t = "1" -> 1
       [] t = "5" -> 5
       [] t = "90" -> 90
       [] t = "100" -> 100]

\* lines 351-376: the argument loop of "c"; ret # "" is the early return
\* lines 350-354: idx, length, word, rev, debug before the first term
c_start ==
  [idx |-> 0, length |-> 0, word |-> "-", rev |-> FALSE, debug |-> FALSE,
   ret |-> ""]

RECURSIVE c_parse(_, _, _)
c_parse(params, i, acc) ==
  IF i > Len(params) \/ acc.ret # "" THEN acc
  ELSE
    LET term == params[i]
    IN  c_parse(params, i + 1,
          IF acc.idx = 0 THEN
            IF term \in DOMAIN ParseUsize
            THEN [acc EXCEPT !.length = ParseUsize[term], !.idx = 1]
            ELSE [acc EXCEPT !.ret = "Usage"]
          ELSE IF acc.idx = 1 THEN [acc EXCEPT !.word = term, !.idx = 2]
          ELSE IF term = "-d" THEN [acc EXCEPT !.debug = ~acc.debug]
          ELSE IF term = "-r" THEN [acc EXCEPT !.rev = ~acc.rev]
          ELSE [acc EXCEPT !.ret = "Usage"])

\* sort_by(|(_,a),(_,b)| a.total_cmp(b)) is stable: an element goes behind
\* every element already placed whose similarity is not greater
RECURSIVE sort_by(_, _, _)
sort_by(s, i, acc) ==
  IF i > Len(s) THEN acc
  ELSE
    LET n == Cardinality({j \in DOMAIN acc : acc[j][2] <= s[i][2]})
    IN  sort_by(s, i + 1,
                SubSeq(acc, 1, n) \o <<s[i]>> \o SubSeq(acc, n + 1, Len(acc)))

Reverse(s) == [i \in 1..Len(s) |-> s[Len(s) + 1 - i]]

Take(s, n) == SubSeq(s, 1, Min(n, Len(s)))

\* lines 392-402: the other words of the map with their similarity to the
\* word, highest first; order is the iteration order of the map
orig_words_sorted(ow, word, order) ==
  LET others == SelectSeq(order, LAMBDA a : a # word)
      pairs == [j \in DOMAIN others |->
                  <<others[j], dot_product(ow[others[j]], ow[word])>>]
  IN  Reverse(sort_by(pairs, 1, <<>>))

RetList(m, lg, debug, word, list) ==
  [exit_code |-> {}, words_to_vecs |-> m, log |-> lg,
   out |-> [kind |-> IF debug THEN "NeighborsDebug" ELSE "Neighbors",
            arg |-> word, list |-> list]]

c_run_from_candidates(params, ow, m, lg, order) ==
  LET q == c_parse(params, 2, c_start)
  IN  IF q.ret # "" \/ q.idx < 2 THEN Ret({}, m, lg, "Usage", Usage("c"))
      ELSE IF q.word \notin DOMAIN ow
      THEN Ret({}, m, lg, "UnknownWord", q.word)
      ELSE
        LET top_n == Take(orig_words_sorted(ow,
                            q.word,
                            SelectSeq(order, LAMBDA a : a \in DOMAIN m)),
                          q.length)
        IN  RetList(m, lg, q.debug, q.word,
                    IF q.rev THEN Reverse(top_n) ELSE top_n)

\* the closure of command "c"
c_run(params, ow, m, lg, order) ==
  LET q == c_parse(params, 2, c_start)
  IN  IF q.ret # "" \/ q.idx < 2 THEN Ret({}, m, lg, "Usage", Usage("c"))
      ELSE IF q.word \notin DOMAIN ow
      THEN Ret({}, m, lg, "UnknownWord", q.word)
      ELSE
        LET top_n == Take(orig_words_sorted(ow, q.word, order), q.length)
        IN  RetList(m, lg, q.debug, q.word,
                    IF q.rev THEN Reverse(top_n) ELSE top_n)

----------------------------------------------------------------------------
(* start_solver *)

WTerms == DOMAIN original_words \cup UnknownWords \cup Numerals(original_words)
            \cup {"-n", "-e", "-r"}

SolverInit ==
  /\ original_words \in Vocabularies
  /\ words_to_vecs = original_words
  /\ log = <<>>
  /\ out = [kind |-> "Ready", arg |-> ""]
  /\ exit_code = {}
  /\ answer = "" /\ most_similar = <<>> /\ similarities = <<>>
  /\ guesses = 0 /\ guessed = {} /\ game_log = <<>> /\ most_recent = 0
  /\ best_guessed = 0 /\ status = ""
  /\ shown = [kind |-> "", word |-> "", n |-> 0, board |-> FALSE]
  /\ hinted = <<>>
  /\ f_v1 = <<>> /\ f_v2 = <<>> /\ f_target = 0 /\ f_res = <<>>

\* (exit_code, words_to_vecs, log) = (x.run)(..); exit(code) on Some(code)
Apply(r) ==
  /\ exit_code = {}
  /\ words_to_vecs' = r.words_to_vecs
  /\ log' = r.log
  /\ out' = r.out
  /\ exit_code' = r.exit_code
  /\ UNCHANGED <<original_words, game_vars, filter_vars>>

CmdW ==
  \E params \in SeqsUpTo(WTerms, MaxTerms) :
    Apply(w_run(<<"w">> \o params, original_words, words_to_vecs, log))

CmdFb ==
  \E params \in SeqsUpTo({"-d"}, MaxTerms), order \in Orders(DOMAIN words_to_vecs) :
    Apply(fb_run(<<"fb">> \o params, words_to_vecs, log, order))

CmdQ ==
  \E params \in SeqsUpTo({"-d"}, MaxTerms) :
    Apply(q_run(<<"q">> \o params, words_to_vecs, log))

\* lines 88-90: readline failed
SolverEof ==
  /\ exit_code = {}
  /\ exit_code' = {0}
  /\ out' = [kind |-> "Closed", arg |-> ""]
  /\ UNCHANGED <<original_words, words_to_vecs, log, game_vars, filter_vars>>

SolverNext == CmdW \/ CmdFb \/ CmdQ \/ SolverEof

SolverSpec == SolverInit /\ [][SolverNext]_vars

\* terms typed after l, p, h
FlagTerms == {"-d", "-e", "xyz"}

CmdL ==
  \E params \in SeqsUpTo(FlagTerms, MaxTerms) :
    Apply(l_run(<<"l">> \o params, words_to_vecs, log))

\* the keys are iterated only when every term is a flag
KeyOrders(m, params) ==
  IF p_parse(params, 2, p_start).ret = "" THEN Orders(DOMAIN m) ELSE {<<>>}

CmdP ==
  \E params \in SeqsUpTo(FlagTerms, MaxTerms) :
    \E order \in KeyOrders(words_to_vecs, <<"p">> \o params) :
      Apply(p_run(<<"p">> \o params, words_to_vecs, log, order))

CmdH ==
  \E params \in SeqsUpTo(FlagTerms, MaxTerms) :
    Apply(h_run(<<"h">> \o params, words_to_vecs, log))

\* first terms that name no command
UnknownCommands == {"x", "quit"}

\* line 104: commands.get(command) is None
CmdUnknown ==
  \E command \in UnknownCommands, params \in SeqsUpTo(FlagTerms, MaxTerms) :
    Apply(Ret({}, words_to_vecs, log, "UnknownCommand", command))

\* lines 94-96: the line is empty after trim
EmptyLine ==
  Apply(Ret({}, words_to_vecs, log, "Cleared", ""))

\* lengths typed to "c"
CLengths == {"1", "5"}

CTerms == DOMAIN original_words \cup UnknownWords \cup CLengths \cup {"-d", "-r"}

\* the map is iterated only when the line parses and names one of its keys
IterOrders(ow, params) ==
  LET q == c_parse(params, 2, c_start)
  IN  IF q.ret = "" /\ q.idx = 2 /\ q.word \in DOMAIN ow
      THEN Orders(DOMAIN ow)
      ELSE {<<>>}

CmdC ==
  \E params \in SeqsUpTo(CTerms, MaxTerms) :
    \E order \in IterOrders(original_words, <<"c">> \o params) :
      Apply(c_run(<<"c">> \o params, original_words, words_to_vecs, log, order))

\* "w <word> 100" lines
CmdAdd ==
  \E word \in DOMAIN original_words :
    Apply(w_run(<<"w", word, "100">>, original_words, words_to_vecs, log))

NeighborNext == CmdAdd \/ CmdC

\* sessions of value lines and "c" lines
NeighborSpec == SolverInit /\ [][NeighborNext]_vars

ReadOnlyNext ==
  CmdAdd \/ CmdL \/ CmdP \/ CmdFb \/ CmdC \/ CmdH \/ CmdQ \/ CmdUnknown
    \/ EmptyLine

\* sessions of value lines, read-only commands and lines that are no command
ReadOnlySpec == SolverInit /\ [][ReadOnlyNext]_vars

----------------------------------------------------------------------------
(* start_game *)

\* (10000. * dot_product(ans_embedding, b)).round() / 100.
Similarity(ans_embedding, b) ==
  Round(dot_product(ans_embedding, b), DotScale \div 10000) * (PctScale \div 100)

\* the literal 1000 of the !hint lookup and of the n/1000 column
RankWindow == 1000

SortedOrders_unsorted(ow, ans) == Orders(DOMAIN ow)

\* most_similar.sort_by(|(_, b), (_, d)| d.total_cmp(b)): a stable sort of the
\* first map's iteration order, so equal similarities keep an arbitrary order
SortedOrders(ow, ans) ==
  {p \in Orders(DOMAIN ow) :
     \A i \in 1..(Len(p) - 1) :
       Similarity(ow[ans], ow[p[i]]) >= Similarity(ow[ans], ow[p[i + 1]])}

Shown(kind, word, n, board) ==
  [kind |-> kind, word |-> word, n |-> n, board |-> board]

GameInit ==
  /\ original_words \in Vocabularies
  /\ answer \in DOMAIN original_words
  /\ \E p \in SortedOrders(original_words, answer) :
       /\ most_similar =
            [i \in DOMAIN p |->
               <<p[i], Similarity(original_words[answer], original_words[p[i]])>>]
       /\ similarities =
            [w \in DOMAIN original_words |->
               <<Similarity(original_words[answer], original_words[w]),
                 (CHOOSE i \in DOMAIN p : p[i] = w) - 1>>]
  /\ guesses = 0
  /\ guessed = {}
  /\ game_log = <<>>
  /\ most_recent = 0
  /\ best_guessed = 0
  /\ status = "AwaitingGuess"
  /\ shown = Shown("Ready", "", 0, FALSE)
  /\ hinted = <<>>
  /\ words_to_vecs = original_words /\ log = <<>>
  /\ out = [kind |-> "", arg |-> ""] /\ exit_code = {}
  /\ f_v1 = <<>> /\ f_v2 = <<>> /\ f_target = 0 /\ f_res = <<>>

GameFrame == UNCHANGED <<original_words, words_to_vecs, log, out, exit_code,
                         answer, most_similar, similarities, filter_vars>>

\* lines 562-566: the n/1000 column of the most recent guess raises best_guessed
BestAfter(best, index) ==
  IF index <= RankWindow - 1 THEN Max(best, RankWindow - index) ELSE best

\* lines 528-616: draw the scoreboard around entry most_recent - 1 of the log
Scoreboard(lg, mr, kind, word) ==
  IF mr \notin DOMAIN lg
  THEN /\ status' = "Panicked"
       /\ shown' = Shown("Panic", "", 0, FALSE)
       /\ best_guessed' = best_guessed
  ELSE /\ status' = "AwaitingGuess"
       /\ shown' = Shown(kind, word, lg[mr][1], TRUE)
       /\ best_guessed' = BestAfter(best_guessed, lg[mr][4])

Process_push_before_count(word) ==
  IF word \in DOMAIN similarities THEN
    LET x == similarities[word]
        fresh == word \notin guessed
        lg == IF fresh THEN Append(game_log, <<guesses, word, x[1], x[2]>>)
              ELSE game_log
        first == CHOOSE i \in DOMAIN game_log :
                   /\ game_log[i][2] = word
                   /\ \A j \in 1..(i - 1) : game_log[j][2] # word
        mr == IF fresh THEN guesses + 1 ELSE game_log[first][1]
    IN  /\ guessed' = guessed \cup {word}
        /\ guesses' = IF fresh THEN guesses + 1 ELSE guesses
        /\ game_log' = lg
        /\ most_recent' = mr
        /\ Scoreboard(lg, mr, "Board", word)
  ELSE
    /\ UNCHANGED <<guessed, guesses, game_log, most_recent>>
    /\ IF most_recent = 0
       THEN /\ status' = "AwaitingGuess"
            /\ shown' = Shown("Unknown", word, 0, FALSE)
            /\ best_guessed' = best_guessed
       ELSE Scoreboard(game_log, most_recent, "Unknown", word)

Process_always_new(word) ==
  IF word \in DOMAIN similarities THEN
    LET x == similarities[word]
        fresh == TRUE
        lg == IF fresh THEN Append(game_log, <<guesses + 1, word, x[1], x[2]>>)
              ELSE game_log
        first == CHOOSE i \in DOMAIN game_log :
                   /\ game_log[i][2] = word
                   /\ \A j \in 1..(i - 1) : game_log[j][2] # word
        mr == IF fresh THEN guesses + 1 ELSE game_log[first][1]
    IN  /\ guessed' = guessed \cup {word}
        /\ guesses' = IF fresh THEN guesses + 1 ELSE guesses
        /\ game_log' = lg
        /\ most_recent' = mr
        /\ Scoreboard(lg, mr, "Board", word)
  ELSE
    /\ UNCHANGED <<guessed, guesses, game_log, most_recent>>
    /\ IF most_recent = 0
       THEN /\ status' = "AwaitingGuess"
            /\ shown' = Shown("Unknown", word, 0, FALSE)
            /\ best_guessed' = best_guessed
       ELSE Scoreboard(game_log, most_recent, "Unknown", word)

Process_unknown_counts(word) ==
  IF word \in DOMAIN similarities THEN
    LET x == similarities[word]
        fresh == word \notin guessed
        lg == IF fresh THEN Append(game_log, <<guesses + 1, word, x[1], x[2]>>)
              ELSE game_log
        first == CHOOSE i \in DOMAIN game_log :
                   /\ game_log[i][2] = word
                   /\ \A j \in 1..(i - 1) : game_log[j][2] # word
        mr == IF fresh THEN guesses + 1 ELSE game_log[first][1]
    IN  /\ guessed' = guessed \cup {word}
        /\ guesses' = IF fresh THEN guesses + 1 ELSE guesses
        /\ game_log' = lg
        /\ most_recent' = mr
        /\ Scoreboard(lg, mr, "Board", word)
  ELSE
    /\ UNCHANGED <<guessed, game_log, most_recent>>
    /\ guesses' = guesses + 1
    /\ IF most_recent = 0
       THEN /\ status' = "AwaitingGuess"
            /\ shown' = Shown("Unknown", word, 0, FALSE)
            /\ best_guessed' = best_guessed
       ELSE Scoreboard(game_log, most_recent, "Unknown", word)

\* lines 508-527: look the word up, record it when it is new
Process(word) ==
  IF word \in DOMAIN similarities THEN
    LET x == similarities[word]
        fresh == word \notin guessed
        lg == IF fresh THEN Append(game_log, <<guesses + 1, word, x[1], x[2]>>)
              ELSE game_log
        first == CHOOSE i \in DOMAIN game_log :
                   /\ game_log[i][2] = word
                   /\ \A j \in 1..(i - 1) : game_log[j][2] # word
        mr == IF fresh THEN guesses + 1 ELSE game_log[first][1]
    IN  /\ guessed' = guessed \cup {word}
        /\ guesses' = IF fresh THEN guesses + 1 ELSE guesses
        /\ game_log' = lg
        /\ most_recent' = mr
        /\ Scoreboard(lg, mr, "Board", word)
  ELSE
    /\ UNCHANGED <<guessed, guesses, game_log, most_recent>>
    /\ IF most_recent = 0
       THEN /\ status' = "AwaitingGuess"
            /\ shown' = Shown("Unknown", word, 0, FALSE)
            /\ best_guessed' = best_guessed
       ELSE Scoreboard(game_log, most_recent, "Unknown", word)

\* lines 487-491: the line is the answer
GuessAnswer ==
  /\ status = "AwaitingGuess"
  /\ guesses' = guesses + 1
  /\ shown' = Shown("Won", answer, guesses + 1, FALSE)
  /\ status' = "Won"
  /\ UNCHANGED <<guessed, game_log, most_recent, best_guessed, hinted>>
  /\ GameFrame

\* any other line that is no meta-command
GuessWord ==
  /\ status = "AwaitingGuess"
  /\ \E word \in (DOMAIN original_words \cup UnknownWords) \ {answer} :
       Process(word)
  /\ UNCHANGED hinted
  /\ GameFrame

\* "!hint": most_similar.get(1000-best_guessed-1).unwrap(); the subtraction
\* underflows or the index is past the end => the process panics
Hint ==
  /\ status = "AwaitingGuess"
  /\ LET idx == RankWindow - best_guessed - 1
     IN  IF idx < 0 \/ idx >= Len(most_similar)
         THEN /\ status' = "Panicked"
              /\ shown' = Shown("Panic", "", 0, FALSE)
              /\ UNCHANGED <<guessed, guesses, game_log, most_recent,
                             best_guessed, hinted>>
         ELSE /\ hinted' = Append(hinted, most_similar[idx + 1][1])
              /\ Process(most_similar[idx + 1][1])
  /\ GameFrame

Help ==
  /\ status = "AwaitingGuess"
  /\ shown' = Shown("Help", "", 0, FALSE)
  /\ UNCHANGED <<guessed, guesses, game_log, most_recent, best_guessed,
                 status, hinted>>
  /\ GameFrame

Quit ==
  /\ status = "AwaitingGuess"
  /\ shown' = Shown("Goodbye", answer, 0, FALSE)
  /\ status' = "Quit"
  /\ UNCHANGED <<guessed, guesses, game_log, most_recent, best_guessed, hinted>>
  /\ GameFrame

\* lines 481-483: readline failed
GameEof ==
  /\ status = "AwaitingGuess"
  /\ shown' = Shown("", "", 0, FALSE)
  /\ status' = "Closed"
  /\ UNCHANGED <<guessed, guesses, game_log, most_recent, best_guessed, hinted>>
  /\ GameFrame

GameNext == GuessAnswer \/ GuessWord \/ Hint \/ Help \/ Quit \/ GameEof

GameSpec == GameInit /\ [][GameNext]_vars

----------------------------------------------------------------------------
(* Properties of the solver session *)

Words(m) == DOMAIN m

\* the w command the user types for Add / Edit / Remove
AddCmd(word, numeral) == <<"w", word, numeral>>
EditCmd(word, numeral) == <<"w", word, numeral, "-e">>
RemoveCmd(word) == <<"w", word, "-r">>

\* the result of running a w command from the result r of an earlier one
Then(r, params) == w_run(params, original_words, r.words_to_vecs, r.log)
Here == [exit_code |-> {}, words_to_vecs |-> words_to_vecs, log |-> log, out |-> out]

\* C1: in every reachable solver state the working candidate set is the full
\* recomputation from the vocabulary: exactly the words consistent with every
\* entry of the log, each with its original vector
C1_CandidatesAreRecomputation ==
  /\ Words(words_to_vecs) =
       {w \in Words(original_words) :
          \A i \in DOMAIN log :
            filter_embeddings(original_words[log[i][1]], original_words[w], log[i][2])}
  /\ \A w \in Words(words_to_vecs) : words_to_vecs[w] = original_words[w]
  /\ words_to_vecs = update_words(original_words, log)

C1_Witness ==
  /\ out.kind = "Added"
  /\ Len(log) >= 2
  /\ Words(words_to_vecs) # {}
  /\ Words(words_to_vecs) # Words(original_words)

MaxCount(m) ==
  IF Words(m) = {} THEN 0
  ELSE CHOOSE n \in {DistinctCount(m, a) : a \in Words(m)} :
         \A a \in Words(m) : DistinctCount(m, a) <= n

\* C2: with a non-empty log (and candidates left), fb proposes a candidate whose
\* distinct-bucket count is the maximum over the candidates
C2_FindBestIsArgmax ==
  (out.kind = "Best" /\ log # <<>> /\ Words(words_to_vecs) # {}) =>
    /\ out.arg \in Words(words_to_vecs)
    /\ DistinctCount(words_to_vecs, out.arg) = MaxCount(words_to_vecs)

\* C3: when every log entry (w, d) carries the value d the game displays for w
\* against a secret s, s is still a candidate
C3_SecretNeverExcluded ==
  \A s \in Words(original_words) :
    (\A i \in DOMAIN log :
       log[i][2] = Similarity(original_words[s], original_words[log[i][1]]))
    => s \in Words(words_to_vecs)

\* C7: Add(word, v1) then Edit(word, v2) gives the candidate set of Add(word, v2)
C7_EditAfterAdd ==
  \A word \in Words(original_words), n1, n2 \in Numerals(original_words) :
    ~HasWord(log, word) =>
      Then(Then(Here, AddCmd(word, n1)), EditCmd(word, n2)).words_to_vecs
        = Then(Here, AddCmd(word, n2)).words_to_vecs

C7_Witness ==
  /\ out.kind = "Edited"
  /\ Words(words_to_vecs) # {}
  /\ Words(words_to_vecs) # Words(original_words)

\* C8: a successful Add(word, v) followed by Remove(word) restores the
\* candidate set and the log
C8_AddRemoveRoundTrip ==
  \A word \in Words(original_words), n \in Numerals(original_words) :
    LET added == Then(Here, AddCmd(word, n))
        removed == Then(added, RemoveCmd(word))
    IN  added.out.kind = "Added" =>
          /\ removed.out.kind = "Removed"
          /\ Words(removed.words_to_vecs) = Words(words_to_vecs)
          /\ removed.words_to_vecs = words_to_vecs
          /\ removed.log = log

C8_Witness ==
  /\ out.kind = "Removed"
  /\ log # <<>>
  /\ Words(words_to_vecs) # Words(original_words)

\* C9: a successful Add step never grows the candidate set, a successful
\* Remove step never shrinks it
C9_Monotonic ==
  [][/\ out'.kind = "Added" =>
          /\ Words(words_to_vecs') \subseteq Words(words_to_vecs)
          /\ Cardinality(Words(words_to_vecs')) <= Cardinality(Words(words_to_vecs))
     /\ out'.kind = "Removed" =>
          /\ Words(words_to_vecs) \subseteq Words(words_to_vecs')
          /\ Cardinality(Words(words_to_vecs)) <= Cardinality(Words(words_to_vecs'))
    ]_vars

C9_Witness ==
  /\ out.kind = "Removed"
  /\ Len(log) >= 1
  /\ Words(words_to_vecs) # {}

\* C10: Add(word, value) is rejected for a word outside the vocabulary and for
\* a word that already has a constraint, leaving log and candidates as they
\* were; otherwise (word, value) is appended at the end of the log
C10_AddRejections ==
  \A word \in Words(original_words) \cup UnknownWords \cup Numerals(original_words),
     n \in Numerals(original_words) :
    LET r == Then(Here, AddCmd(word, n))
    IN  /\ word \notin Words(original_words) =>
             /\ r.out = [kind |-> "UnknownWord", arg |-> word]
             /\ r.log = log /\ r.words_to_vecs = words_to_vecs
        /\ (word \in Words(original_words) /\ HasWord(log, word)) =>
             /\ r.out.kind = "Duplicate"
             /\ r.log = log /\ r.words_to_vecs = words_to_vecs
        /\ (word \in Words(original_words) /\ ~HasWord(log, word)) =>
             /\ r.out.kind = "Added"
             /\ r.log = Append(log, <<word, ParseF32[n]>>)

C10_Witness ==
  /\ out.kind = "Duplicate"
  /\ log # <<>>

Rejected(r) ==
  /\ r.out.kind = "Usage"
  /\ r.log = log
  /\ r.words_to_vecs = words_to_vecs

\* Edit and Remove of a word without a log entry, and w commands with a missing
\* value, a non-numeric value or an extra argument, as typed in this state
MalformedAndUnknownConstraint ==
  \A word \in Words(original_words), n \in Numerals(original_words) :
    /\ ~HasWord(log, word) =>
         /\ Rejected(Then(Here, EditCmd(word, n)))
         /\ Rejected(Then(Here, RemoveCmd(word)))
    /\ Rejected(Then(Here, <<"w", word>>))
    /\ Rejected(Then(Here, <<"w", word, "-e">>))
    /\ \A junk \in Words(original_words) \cup UnknownWords :
         /\ Rejected(Then(Here, <<"w", word, junk>>))
         /\ Rejected(Then(Here, <<"w", word, junk, "-e">>))
         /\ Rejected(Then(Here, <<"w", word, n, junk>>))
         /\ Rejected(Then(Here, <<"w", word, n, junk, "-e">>))
    /\ Rejected(Then(Here, <<"w", word, n, n>>))
    /\ Rejected(Then(Here, <<"w", word, n, n, "-r">>))
    /\ Rejected(Then(Here, <<"w">>))
    /\ Rejected(Then(Here, <<"w", "-r">>))

\* C11: Edit and Remove of a word without an entry are rejected, a command with
\* a missing or non-numeric value or extra arguments is rejected, and every
\* step that rejects a command leaves the log and the candidate set unchanged
C11_RejectionsLeaveState ==
  /\ []MalformedAndUnknownConstraint
  /\ [][out'.kind \in {"Usage", "UnknownWord", "Duplicate"} =>
          /\ log' = log
          /\ words_to_vecs' = words_to_vecs
       ]_vars

C11_Witness ==
  /\ out.kind = "Usage"
  /\ log # <<>>
  /\ Words(words_to_vecs) # Words(original_words)

\* C12: the log holds at most one entry per word, and only vocabulary words
C12_LogWordsUnique ==
  /\ \A i, j \in DOMAIN log : log[i][1] = log[j][1] => i = j
  /\ \A i \in DOMAIN log : log[i][1] \in Words(original_words)

C12_Witness ==
  /\ Len(log) = Cardinality(Words(original_words))
  /\ out.kind = "Duplicate"

\* what "c <length> <word>" and "c <length> <word> -r" list in this state
NeighborList(length, word, order, flags) ==
  c_run(<<"c", length, word>> \o flags, original_words, words_to_vecs, log,
        order).out.list

C18_ScenarioCatAddRemove ==
  /\ (original_words = VocabScenario /\ log = <<>>) =>
       LET added == Then(Here, AddCmd("cat", "100"))
           removed == Then(added, RemoveCmd("cat"))
       IN  /\ added.log = <<<<"cat", 100 * PctScale>>>>
           /\ Words(added.words_to_vecs) = {"cat"}
           /\ removed.log = <<>>
           /\ Words(removed.words_to_vecs) = {"cat", "dog", "car"}
  /\ (original_words = VocabScenario /\ log = <<<<"cat", 100 * PctScale>>>>) =>
       Words(words_to_vecs) = {"cat"}

C18_Witness ==
  /\ original_words = VocabScenario
  /\ out.kind = "Removed"
  /\ log = <<>>
  /\ Words(words_to_vecs) = {"cat", "dog", "car"}

\* C19: filtering the set the filter produced for the log, with the same log,
\* yields that set again
C19_FilterIdempotent ==
  LET once == update_words(original_words, log)
  IN  /\ update_fold(original_words, once, log, 1) = once
      /\ update_fold(original_words, words_to_vecs, log, 1) = words_to_vecs

C19_Witness ==
  /\ Len(log) >= 2
  /\ out.kind = "Added"
  /\ Words(words_to_vecs) # {}
  /\ Words(words_to_vecs) # Words(original_words)

\* the position of the word's entry in the log
LogIndex(lg, word) == CHOOSE i \in DOMAIN lg : lg[i][1] = word

\* C21: a successful Edit changes only the value of the word's entry (same
\* length, same words in the same positions, other values kept); a successful
\* Remove deletes only the word's entry and keeps the others in order
C21_EditRemoveTouchOneEntry ==
  \A word \in Words(original_words), n \in Numerals(original_words) :
    HasWord(log, word) =>
      LET edited == Then(Here, EditCmd(word, n))
          removed == Then(Here, RemoveCmd(word))
          k == LogIndex(log, word)
      IN  /\ edited.out.kind = "Edited"
          /\ Len(edited.log) = Len(log)
          /\ \A i \in DOMAIN log :
               /\ edited.log[i][1] = log[i][1]
               /\ i # k => edited.log[i][2] = log[i][2]
          /\ edited.log[k][2] = ParseF32[n]
          /\ removed.out.kind = "Removed"
          /\ removed.log = SubSeq(log, 1, k - 1) \o SubSeq(log, k + 1, Len(log))

C21_Witness ==
  /\ out.kind = "Edited"
  /\ Len(log) = Cardinality(Words(original_words))
  /\ \E i, j \in DOMAIN log : log[i][2] # log[j][2]

\* the closure returned the map and the log it was given, and no exit code
ReadOnly(r) ==
  /\ r.words_to_vecs = words_to_vecs
  /\ r.log = log
  /\ r.exit_code = {}

\* l, p, fb, c, h with every short argument list, c with well-formed ones, q
ReadOnlyClosures ==
  /\ \A params \in SeqsUpTo(FlagTerms, MaxTerms) :
       /\ ReadOnly(l_run(<<"l">> \o params, words_to_vecs, log))
       /\ ReadOnly(h_run(<<"h">> \o params, words_to_vecs, log))
       /\ \A order \in Orders(DOMAIN words_to_vecs) :
            /\ ReadOnly(p_run(<<"p">> \o params, words_to_vecs, log, order))
            /\ ReadOnly(fb_run(<<"fb">> \o params, words_to_vecs, log, order))
       /\ ReadOnly(c_run(<<"c">> \o params, original_words, words_to_vecs, log,
                         <<>>))
       /\ LET r == q_run(<<"q">> \o params, words_to_vecs, log)
          IN  /\ r.words_to_vecs = words_to_vecs
              /\ r.log = log
              /\ r.exit_code # {} <=> params = <<>>
  /\ \A length \in CLengths, term \in Words(original_words) \cup UnknownWords,
        order \in Orders(Words(original_words)),
        flags \in {<<>>, <<"-d">>, <<"-r">>} :
       ReadOnly(c_run(<<"c", length, term>> \o flags, original_words,
                      words_to_vecs, log, order))

C26_OrderIndependent ==
  /\ \A a, b \in Words(original_words), na, nb \in Numerals(original_words) :
       (a # b /\ ~HasWord(log, a) /\ ~HasWord(log, b)) =>
         LET ab == Then(Then(Here, AddCmd(a, na)), AddCmd(b, nb))
             ba == Then(Then(Here, AddCmd(b, nb)), AddCmd(a, na))
         IN  /\ ab.out.kind = "Added"
             /\ ba.out.kind = "Added"
             /\ {ab.log[i] : i \in DOMAIN ab.log} = {ba.log[i] : i \in DOMAIN ba.log}
             /\ ab.words_to_vecs = ba.words_to_vecs
  /\ \A p \in Orders(DOMAIN log) :
       update_words(original_words, [i \in DOMAIN log |-> log[p[i]]])
         = words_to_vecs

C26_Witness ==
  /\ Len(log) = Cardinality(Words(original_words))
  /\ out.kind = "Added"
  /\ Words(words_to_vecs) # {}

----------------------------------------------------------------------------
(* Properties of the game session *)

\* C4: !hint never substitutes a word it substituted before, and never the
\* secret word
C4_HintNeverRepeatsNorReveals ==
  /\ \A i, j \in DOMAIN hinted : hinted[i] = hinted[j] => i = j
  /\ \A i \in DOMAIN hinted : hinted[i] # answer

\* C5: ranked against its own vector, the word (the secret of game setup)
\* receives rankIndex 0
C5_SelfRanksFirst ==
  similarities[answer][2] = 0

\* C13: entering the secret ends the game in Won and reports the number of
\* distinct words guessed, the winning one included, each word counted once
C13_WonCountsDistinctWords ==
  status = "Won" =>
    /\ shown.kind = "Won"
    /\ shown.n = Cardinality(guessed \cup {answer})

\* the step records word as a new guess
Recorded(word) ==
  /\ word \notin guessed
  /\ word \in guessed'

\* a percentage with two decimals, nearest to the exact product
RoundedTwoDecimals(sim, dot) ==
  /\ sim % (PctScale \div 100) = 0
  /\ 2 * (sim - Times100(dot)) <= PctScale \div 100
  /\ 2 * (Times100(dot) - sim) <= PctScale \div 100

\* C14: a known word not guessed before is appended to the history with
\* guessNumber = counter + 1 (1 for the first), its similarity to the secret in
\* percent rounded to 2 decimals and its rankIndex of the rank table, and
\* becomes the most recent guess; with secret cat, dog records 90.0 and rank 1
C14_NewGuessRecorded ==
  [][\A word \in Words(original_words) :
       Recorded(word) =>
         LET e == game_log'[Len(game_log')]
         IN  /\ game_log' = Append(game_log, e)
             /\ e[1] = guesses + 1
             /\ game_log = <<>> => e[1] = 1
             /\ e[2] = word
             /\ RoundedTwoDecimals(e[3],
                  dot_product(original_words[answer], original_words[word]))
             /\ e[4] + 1 \in DOMAIN most_similar
             /\ most_similar[e[4] + 1] = <<word, e[3]>>
             /\ guesses' = guesses + 1
             /\ most_recent' = e[1]
             /\ shown' = Shown("Board", word, e[1], TRUE)
             /\ (original_words = VocabScenario /\ answer = "cat"
                   /\ word = "dog") =>
                  (e[3] = 90 * PctScale /\ e[4] = 1)
    ]_vars

C14_Witness ==
  /\ original_words = VocabScenario
  /\ answer = "cat"
  /\ game_log # <<>>
  /\ game_log[Len(game_log)] = <<2, "dog", 90 * PctScale, 1>>
  /\ most_recent = 2

\* the entry of the history that holds the word
EntryOf(lg, word) ==
  CHOOSE i \in DOMAIN lg : lg[i][2] = word

\* C15: re-entering a word of the history changes neither the counter nor the
\* history; the most-recent marker becomes the word's original guessNumber and
\* its recorded entry is the one displayed
C15_RepeatedGuessIdempotent ==
  [][\A word \in guessed :
       (shown'.kind = "Board" /\ shown'.word = word) =>
         /\ guesses' = guesses
         /\ game_log' = game_log
         /\ guessed' = guessed
         /\ (\E i \in DOMAIN game_log : game_log[i][2] = word)
         /\ most_recent' = game_log[EntryOf(game_log, word)][1]
         /\ shown'.n = most_recent'
         /\ shown'.board
         /\ game_log[most_recent'][2] = word
    ]_vars

C15_Witness ==
  /\ shown.kind = "Board"
  /\ most_recent < Len(game_log)
  /\ game_log[most_recent][2] = shown.word

\* C16: a word outside the vocabulary is reported and leaves the counter, the
\* history, the most-recent marker and the best rank unchanged; as the first
\* input of the game it draws no scoreboard
C16_UnknownWordNoEffect ==
  [][shown'.kind = "Unknown" =>
       /\ shown'.word \notin Words(original_words)
       /\ UNCHANGED <<guesses, guessed, game_log, most_recent, best_guessed>>
       /\ status' = "AwaitingGuess"
       /\ shown.kind = "Ready" => ~shown'.board
       /\ shown'.board <=> most_recent # 0
    ]_vars

C16_Witness ==
  /\ shown.kind = "Unknown"
  /\ shown.board
  /\ best_guessed > 0
  /\ Len(game_log) >= 2

\* the rankIndex a hint is to serve after the guesses of lg: one less than the
\* smallest recorded rankIndex, 999 when none is below 1000
HintTarget(lg) ==
  LET ranked == {lg[i][4] : i \in DOMAIN lg} \cap (0..(RankWindow - 1))
  IN  IF ranked = {} THEN RankWindow - 1
      ELSE (CHOOSE r \in ranked : \A r2 \in ranked : r <= r2) - 1

\* the word substituted by the k-th hint was recorded as a new guess whose
\* rankIndex is the target of the guesses before it
HintsServedInOrder ==
  \A k \in DOMAIN hinted :
    \E i \in DOMAIN game_log :
      /\ game_log[i][1] = i
      /\ game_log[i][2] = hinted[k]
      /\ game_log[i][4] = HintTarget(SubSeq(game_log, 1, i - 1))

\* C20: every !hint substitutes the word whose rankIndex is one less than the
\* smallest rankIndex recorded so far (999 when none is below 1000), and the
\* word is recorded as a new guess with the next guess number
C20_HintServesNextRank ==
  /\ shown.kind # "Panic"
  /\ HintsServedInOrder

\* C23: the rank table gives the vocabulary words the indices
\* 0..|Vocabulary|-1, each exactly once, and a lower index never goes with a
\* lower similarity score
C23_RankTableDenseAndOrdered ==
  LET n == Cardinality(Words(original_words))
  IN  /\ DOMAIN similarities = Words(original_words)
      /\ {similarities[w][2] : w \in DOMAIN similarities} = 0..(n - 1)
      /\ \A a, b \in DOMAIN similarities :
           /\ similarities[a][2] = similarities[b][2] => a = b
           /\ similarities[a][2] < similarities[b][2] =>
                similarities[a][1] >= similarities[b][1]
      /\ \A w \in DOMAIN similarities :
           /\ similarities[w][1] =
                Similarity(original_words[answer], original_words[w])
           /\ most_similar[similarities[w][2] + 1] = <<w, similarities[w][1]>>

C23_Witness ==
  /\ \E a, b \in DOMAIN similarities :
       /\ a # b
       /\ similarities[a][1] = similarities[b][1]
       /\ similarities[a][2] + 1 = similarities[b][2]
  /\ Len(game_log) = Cardinality(Words(original_words))

\* C24: whenever the game waits for input, the index 1000 - best_guessed - 1
\* read by !hint is a position of the rank table, so a hint never aborts the
\* session
C24_HintIndexValid ==
  /\ status = "AwaitingGuess" =>
       LET idx == RankWindow - best_guessed - 1
       IN  idx >= 0 /\ idx < Len(most_similar)
  /\ status # "Panicked"

\* the i-th entry carries guessNumber i, no word occurs twice, and most_recent
\* is 0 or the guessNumber of an entry
HistoryWellFormed ==
  /\ \A i \in DOMAIN game_log : game_log[i][1] = i
  /\ \A i, j \in DOMAIN game_log : game_log[i][2] = game_log[j][2] => i = j
  /\ {game_log[i][2] : i \in DOMAIN game_log} = guessed
  /\ \/ most_recent = 0 /\ game_log = <<>>
     \/ /\ most_recent \in DOMAIN game_log
        /\ game_log[most_recent][1] = most_recent
  /\ shown.board => shown.n = most_recent

\* C25 as stated: in every reachable game state the history has as many
\* entries as the guess counter, entry i carries guessNumber i, no word occurs
\* twice and most_recent is 0 or names an entry
C25_HistoryMatchesCounter ==
  /\ Len(game_log) = guesses
  /\ HistoryWellFormed

\* C25 amended: the same in every state but Won, where the counter also
\* counts the winning word, which is not entered in the history
C25_HistoryMatchesCounterUntilWon ==
  /\ Len(game_log) = IF status = "Won" THEN guesses - 1 ELSE guesses
  /\ HistoryWellFormed

C25_Witness ==
  /\ status = "AwaitingGuess"
  /\ shown.kind = "Unknown"
  /\ Len(game_log) = 2
  /\ most_recent = 1

----------------------------------------------------------------------------
(* filter_embeddings on its own: one call on drawn arguments *)

Vectors == UNION {{ow[w] : w \in DOMAIN ow} : ow \in Vocabularies}

\* targets at and around both ends of the tolerance interval
NearTargets(v1, v2) ==
  {Times100(dot_product(v1, v2)) + d :
     d \in {-Tolerance - 1, -Tolerance, -Tolerance + 1, 0,
            Tolerance - 1, Tolerance, Tolerance + 1}}

FilterInit ==
  /\ f_v1 \in Vectors
  /\ f_v2 \in Vectors
  /\ f_target \in NearTargets(f_v1, f_v2) \cup {ParseF32[t] : t \in DOMAIN ParseF32}
  /\ f_res = <<>>
  /\ original_words = <<>> /\ words_to_vecs = <<>> /\ log = <<>>
  /\ out = [kind |-> "", arg |-> ""] /\ exit_code = {}
  /\ answer = "" /\ most_similar = <<>> /\ similarities = <<>>
  /\ guesses = 0 /\ guessed = {} /\ game_log = <<>> /\ most_recent = 0
  /\ best_guessed = 0 /\ status = "" /\ shown = Shown("", "", 0, FALSE)
  /\ hinted = <<>>

FilterCall ==
  /\ f_res = <<>>
  /\ f_res' = <<filter_embeddings(f_v1, f_v2, f_target)>>
  /\ UNCHANGED <<f_v1, f_v2, f_target, solver_vars, game_vars>>

FilterNext == FilterCall

FilterSpec == FilterInit /\ [][FilterNext]_vars

\* C6: isConsistent(a, b, target) is true exactly when
\* target - 0.005 <= similarity(a, b) * 100 <= target + 0.005, both ends accepted
C6_SymmetricTolerance ==
  f_res # <<>> =>
    LET res == Times100(dot_product(f_v1, f_v2))
    IN  f_res[1] = (f_target - Tolerance <= res /\ res <= f_target + Tolerance)

====
